---- MODULE Spec2Model ----
(***************************************************************************)
(* ettllama-server: one inference engine shared by many WebSocket          *)
(* sessions on a single-threaded cooperative runtime.                      *)
(*                                                                         *)
(* The model follows src/ettllama-server/src/main.rs: the accept loop of   *)
(* main (lines 93-101) and the per-connection handler (lines 115-172).     *)
(* A task is polled from one suspension point to the next; the steps a     *)
(* poll is made of are separate actions, all guarded by the task being the *)
(* one that is running.                                                    *)
(***************************************************************************)
EXTENDS Integers, Sequences, FiniteSets, TLC

VARIABLES
    templateFile,   \* content of the template file (TEMPLATE_FILE)
    main,           \* the accept loop: [pc, cand]
    sess,           \* per connection: the handler task and its locals
    inbox,          \* per connection: messages the client sent, not yet read
    nsent,          \* how many messages the clients have sent
    ntoks,          \* how many tokens the engine has returned
    runq,           \* the runtime's FIFO run queue of spawned tasks
    running,        \* tasks being polled right now
    inflight,       \* sessions with an engine call begun and not returned
    nsessions,      \* the engine: how many sessions were started on it
    owed,           \* history: who still owes a call since one's last infer
    skipped,        \* history: who was overtaken at one's last infer
    owedGen,        \* as owed, over every session in Generating
    skippedGen,     \* as skipped, over every session in Generating
    cli             \* per connection: the command-line client's loop

vars == <<templateFile, main, sess, inbox, nsent, ntoks, runq,
          running, inflight, nsessions, owed, skipped, owedGen, skippedGen,
          cli>>

(***************************************************************************)
(* Bounds of the model.                                                    *)
(***************************************************************************)
\* tokens the engine yields, over all sessions, before it only reports
\* the end of text or an error
MaxToks == 2
\* messages the clients send, over all connections
MaxMsgs == 2
\* messages of a connection the handler has not read yet
MaxUnread == 2

Conns == {"c1", "c2"}

\* the connections arrive in this order
Earlier(c) == IF c = "c2" THEN {"c1"} ELSE {}

NoConn == "none"

(***************************************************************************)
(* Text.  A string is a sequence of characters; a token is a sequence of   *)
(* bytes.                                                                  *)
(***************************************************************************)
PH == "{{prompt}}"

Templates == { <<" ", PH>> }

Prompts == { <<>>, <<"a", "b", " ", " ", "c">> }

Tokens == { <<>>, <<72>>, <<195, 169>>, <<195>> }

\* Template::render with the one binding "prompt"
RECURSIVE render(_, _)
render(template, prompt) ==
    IF template = <<>> THEN <<>>
    ELSE (IF Head(template) = PH THEN prompt ELSE <<Head(template)>>)
         \o render(Tail(template), prompt)

IsWhitespace(ch) == ch = " "

\* str::split_whitespace, with the word being built in cur
RECURSIVE SplitFrom(_, _)
SplitFrom(s, cur) ==
    IF s = <<>> THEN (IF cur = <<>> THEN <<>> ELSE <<cur>>)
    ELSE IF IsWhitespace(Head(s))
         THEN (IF cur = <<>> THEN <<>> ELSE <<cur>>) \o SplitFrom(Tail(s), <<>>)
         ELSE SplitFrom(Tail(s), Append(cur, Head(s)))

split_whitespace(s) == SplitFrom(s, <<>>)

IsCont(b) == b >= 128 /\ b <= 191

\* the validation of String::from_utf8
RECURSIVE IsUtf8(_)
IsUtf8(bs) ==
    IF bs = <<>> THEN TRUE
    ELSE LET b == Head(bs)
             n == Len(bs)
         IN  IF b < 128 THEN IsUtf8(Tail(bs))
             ELSE IF b >= 194 /\ b <= 223
                  THEN n >= 2 /\ IsCont(bs[2]) /\ IsUtf8(SubSeq(bs, 3, n))
             ELSE IF b >= 224 /\ b <= 239
                  THEN /\ n >= 3 /\ IsCont(bs[2]) /\ IsCont(bs[3])
                       /\ (b = 224 => bs[2] >= 160)
                       /\ (b = 237 => bs[2] <= 159)
                       /\ IsUtf8(SubSeq(bs, 4, n))
             ELSE IF b >= 240 /\ b <= 244
                  THEN /\ n >= 4 /\ IsCont(bs[2]) /\ IsCont(bs[3]) /\ IsCont(bs[4])
                       /\ (b = 240 => bs[2] >= 144)
                       /\ (b = 244 => bs[2] <= 143)
                       /\ IsUtf8(SubSeq(bs, 5, n))
             ELSE FALSE

\* Message::Text(String::new()): the end-of-turn message
Sentinel == [kind |-> "sentinel", text |-> <<>>]

\* Message::Text(String::from_utf8(tok)?)
TokenMessage(tok) == [kind |-> "token", text |-> tok]

(***************************************************************************)
(* The handler's locals before the task is spawned.                        *)
(***************************************************************************)
InitSess ==
    [ task     |-> "none",    \* none | ready | running | blocked | ended
      pc       |-> "idle",
      cause    |-> "none",    \* how the handler ended
      handle   |-> 0,         \* the engine session (0: not started)
      started  |-> 0,         \* start_session calls made
      template |-> <<>>,
      rendered |-> <<>>,      \* the templated prompt being fed
      words    |-> <<>>,      \* feed units not yet fed
      fed      |-> <<>>,      \* history: units submitted to feed_prompt
      cur      |-> <<>>,      \* the token being sent
      returned |-> <<>>,      \* tokens infer_next_token returned this turn
      wire     |-> <<>>,      \* messages sent since the last prompt was read
      flushed  |-> 0,         \* how many of them were flushed
      nread    |-> 0,         \* prompts read on the connection
      nsentinel|-> 0,         \* end-of-turn messages sent on the connection
      used     |-> {},        \* handles the engine calls were made on
      lastRes  |-> "none",    \* result of the last engine call
      yielded  |-> TRUE ]     \* no engine call since the last yield_now

\* ettllama-cli before its first prompt
InitCli ==
    [ pc    |-> "prompt",     \* prompt | reading | exited
      sent  |-> 0,            \* prompts that reached the handler's stream
      recv  |-> 0,            \* messages of the turn it has received
      acked |-> TRUE,         \* the last prompt sent was answered by ""
      early |-> FALSE ]       \* history: a prompt was sent unanswered

Init ==
    /\ templateFile \in Templates
    /\ main = [pc |-> "accept", cand |-> NoConn]
    /\ sess = [c \in Conns |-> InitSess]
    /\ inbox = [c \in Conns |-> <<>>]
    /\ nsent = 0
    /\ ntoks = 0
    /\ runq = <<>>
    /\ running = {}
    /\ inflight = {}
    /\ nsessions = 0
    /\ owed = [c \in Conns |-> {}]
    /\ skipped = [c \in Conns |-> {}]
    /\ owedGen = [c \in Conns |-> {}]
    /\ skippedGen = [c \in Conns |-> {}]
    /\ cli = [c \in Conns |-> InitCli]

(***************************************************************************)
(* The runtime: #[tokio::main(flavor = "current_thread")].                 *)
(***************************************************************************)
\* a multi-threaded runtime polls a task while another is being polled
CanPollMultiThread == Cardinality(running) < 2

\* one thread: a task is polled only when no task is being polled
CanPoll == running = {}

\* the runtime looks at the I/O driver between two polls, never during one
DriverTurn == running = {}

InsertAt(q, i, c) == SubSeq(q, 1, i) \o <<c>> \o SubSeq(q, i + 1, Len(q))

\* the session is in its generation loop (lines 149-163)
InGen(s) ==
    /\ s.task \in {"ready", "running", "blocked"}
    /\ s.pc \in {"infer", "inferring", "send_tok", "flush_tok", "tok_yield"}

\* the session has yielded and its next step is an infer_next_token call
ReadyToInfer(s) == s.task = "ready" /\ s.pc = "infer"

\* history: a session that left the generation loop owes nothing
KeepHist ==
    /\ owedGen' = [e \in Conns |-> {d \in owedGen[e] : InGen(sess'[d])}]
    /\ UNCHANGED <<owed, skipped, skippedGen>>

\* history: c begins an engine call that is not an infer_next_token call
FeedHist(c) ==
    /\ owed' = [e \in Conns |-> IF e = c THEN {} ELSE owed[e] \ {c}]
    /\ owedGen' = [e \in Conns |-> IF e = c THEN {} ELSE owedGen[e] \ {c}]
    /\ UNCHANGED <<skipped, skippedGen>>

\* history: c begins an infer_next_token call
InferHist(c) ==
    /\ skipped' = [skipped EXCEPT ![c] = owed[c]]
    /\ owed' = [e \in Conns |->
                  IF e = c THEN {d \in Conns \ {c} : ReadyToInfer(sess[d])}
                  ELSE owed[e] \ {c}]
    /\ skippedGen' = [skippedGen EXCEPT ![c] = owedGen[c]]
    /\ owedGen' = [e \in Conns |->
                     IF e = c THEN {d \in Conns \ {c} : InGen(sess[d])}
                     ELSE owedGen[e] \ {c}]

\* the error is noted and the handler goes on
FinishedLogged(s, why) == [s EXCEPT !.cause = why]

\* the handler returns or panics: the task is over
\* its locals are dropped; what it sent stays sent
Finished(s, why) ==
    [s EXCEPT !.task = "ended", !.cause = why, !.pc = "done",
              !.words = <<>>, !.cur = <<>>, !.template = <<>>,
              !.returned = <<>>, !.lastRes = "none", !.flushed = 0,
              !.yielded = TRUE, !.rendered = <<>>, !.fed = <<>>]

\* the runtime is dropped with main: every task is dropped where it waits
Dropped(s) ==
    IF s.task \in {"ready", "blocked"} THEN Finished(s, "cancelled") ELSE s

\* a woken task is pushed on the front of the run queue
RequeueFront(q, c) == <<c>> \o q

\* a task that wakes itself in yield_now goes to the back of the run queue
Requeue(q, c) == Append(q, c)

\* the scheduler takes the task at the head of the run queue and polls it
Schedule(c) ==
    /\ CanPoll
    /\ runq # <<>>
    /\ c = Head(runq)
    /\ runq' = Tail(runq)
    /\ running' = running \cup {c}
    /\ sess' = [sess EXCEPT ![c].task = "running"]
    /\ KeepHist
    /\ UNCHANGED <<cli, templateFile, main, inbox, nsent, ntoks,
                   inflight, nsessions>>

\* an await returned Pending: the task waits for its channel or file
Suspend(c) ==
    /\ running' = running \ {c}
    /\ sess' = [sess EXCEPT ![c].task = "blocked"]
    /\ UNCHANGED runq

\* the I/O a blocked task waits for is ready: the task is queued again
IoReady(c) ==
    /\ DriverTurn
    /\ sess[c].task = "blocked"
    /\ sess[c].pc \in {"ws", "tpl", "send_tok", "send_sentinel"}
    /\ \E i \in 0..Len(runq) : runq' = InsertAt(runq, i, c)
    /\ sess' = [sess EXCEPT ![c].task = "ready"]
    /\ KeepHist
    /\ UNCHANGED <<cli, templateFile, main, inbox, nsent, ntoks,
                   running, inflight, nsessions>>

(***************************************************************************)
(* The clients and the network.                                            *)
(***************************************************************************)
\* a client opens a TCP connection: it waits in the listener's backlog
TcpConnect(c) ==
    /\ DriverTurn
    /\ main.pc # "exited"
    /\ sess[c].pc = "idle"
    /\ \A d \in Earlier(c) : sess[d].pc # "idle"
    /\ sess' = [sess EXCEPT ![c].pc = "tcp"]
    /\ KeepHist
    /\ UNCHANGED <<cli, templateFile, main, inbox, nsent, ntoks, runq, running,
                   inflight, nsessions>>

\* what a client's end of the connection does: a text message, a message
\* that is not text, or the end of the stream (closed, or broken)
ClientMsgs == [t : {"text"}, p : Prompts] \cup
              { [t |-> "binary", p |-> <<>>], [t |-> "close", p |-> <<>>] }

\* a client has at most MaxUnread messages on their way, and sends
\* nothing behind a close, a broken connection or a binary message
Unread(q) == Len(q) >= MaxUnread \/ \E i \in 1..Len(q) : q[i].t # "text"

\* the client sends a message, closes, or the connection breaks
ClientSend(c, m) ==
    /\ DriverTurn
    /\ sess[c].task \in {"ready", "blocked"}
    /\ nsent < MaxMsgs
    /\ ~Unread(inbox[c])
    /\ inbox' = [inbox EXCEPT ![c] = Append(@, m)]
    /\ nsent' = nsent + 1
    /\ IF sess[c].task = "blocked" /\ sess[c].pc = "read"
       THEN /\ \E i \in 0..Len(runq) : runq' = InsertAt(runq, i, c)
            /\ sess' = [sess EXCEPT ![c].task = "ready"]
       ELSE UNCHANGED <<runq, sess>>
    /\ KeepHist
    /\ UNCHANGED <<cli, templateFile, main, ntoks, running,
                   inflight, nsessions>>

(***************************************************************************)
(* ettllama-cli: the prompt loop of the command-line client                *)
(* (src/ettllama-cli/src/main.rs, lines 64-88).                            *)
(***************************************************************************)
\* connect_async returned: the WebSocket handshake is done
CliConnected(c) ==
    \/ sess[c].pc = "start"
    \/ sess[c].started > 0
    \/ sess[c].cause = "env_err"

\* the server side of the connection is gone
TornDown(c) == sess[c].task = "ended"

\* a message reaches the handler's end of the connection
Deliver(c, m) ==
    /\ inbox' = [inbox EXCEPT ![c] = Append(@, m)]
    /\ IF sess[c].task = "blocked" /\ sess[c].pc = "read"
       THEN /\ \E i \in 0..Len(runq) : runq' = InsertAt(runq, i, c)
            /\ sess' = [sess EXCEPT ![c].task = "ready"]
       ELSE UNCHANGED <<runq, sess>>


\* the prompt was written: the client goes to its read loop (lines 72-77)
CliSent(k) ==
    [k EXCEPT !.pc = "reading", !.recv = 0, !.acked = FALSE,
              !.early = @ \/ ~k.acked]

\* Text::new("user:").prompt() returned a prompt;
\* writer.send(Message::Text(prompt)).await?; writer.flush().await?
\* (lines 65-73)
CliSend(c, p) ==
    /\ DriverTurn
    /\ cli[c].pc = "prompt"
    /\ CliConnected(c)
    /\ nsent < MaxMsgs
    /\ nsent' = nsent + 1
    /\ IF ~TornDown(c)
       THEN /\ Deliver(c, [t |-> "text", p |-> p])
            /\ cli' = [cli EXCEPT ![c] = [CliSent(@) EXCEPT !.sent = @ + 1]]
       ELSE /\ \/ cli' = [cli EXCEPT ![c] =
                            [CliSent(@) EXCEPT !.recv = Len(sess[c].wire)]]
               \/ cli' = [cli EXCEPT ![c].pc = "exited"]
            /\ UNCHANGED <<inbox, runq, sess>>
    /\ KeepHist
    /\ UNCHANGED <<templateFile, main, ntoks, running, inflight, nsessions>>

\* while let Some(Ok(Message::Text(tok))) = reader.next().await: a message
\* arrived; the empty one ends the read loop (lines 77-84)
CliRecv(c) ==
    /\ DriverTurn
    /\ cli[c].pc = "reading"
    /\ sess[c].nread = cli[c].sent
    /\ cli[c].recv < Len(sess[c].wire)
    /\ LET m == sess[c].wire[cli[c].recv + 1]
       IN  cli' = [cli EXCEPT ![c].recv = @ + 1,
                              ![c].pc = IF m.text = <<>> THEN "prompt"
                                        ELSE "reading",
                              ![c].acked = (m.text = <<>>)]
    /\ UNCHANGED <<templateFile, main, sess, inbox, nsent, ntoks, runq,
                   running, inflight, nsessions>>
    /\ KeepHist

\* reader.next().await returned None or Some(Err(..)): the while-let ends
\* and the client prompts again (lines 77, 86-88, 64)
CliStreamEnd(c) ==
    /\ DriverTurn
    /\ cli[c].pc = "reading"
    /\ TornDown(c)
    /\ sess[c].nread < cli[c].sent \/ cli[c].recv = Len(sess[c].wire)
    /\ cli' = [cli EXCEPT ![c].pc = "prompt"]
    /\ UNCHANGED <<templateFile, main, sess, inbox, nsent, ntoks, runq,
                   running, inflight, nsessions>>
    /\ KeepHist

\* prompt() returned Err: the loop breaks and the client exits, which the
\* handler reads as the end of its stream (lines 65-70)
CliQuit(c) ==
    /\ DriverTurn
    /\ cli[c].pc = "prompt"
    /\ CliConnected(c)
    /\ cli' = [cli EXCEPT ![c].pc = "exited"]
    /\ IF ~TornDown(c)
       THEN Deliver(c, [t |-> "close", p |-> <<>>])
       ELSE UNCHANGED <<inbox, runq, sess>>
    /\ KeepHist
    /\ UNCHANGED <<templateFile, main, nsent, ntoks, running, inflight,
                   nsessions>>

(***************************************************************************)
(* main: the accept loop (lines 93-101).  main is polled between two task  *)
(* polls, when the listener or the handshake it awaits has an event; the   *)
(* event and the poll that consumes it are one step.                       *)
(***************************************************************************)
\* a handler that is over has dropped its stream, and with it the
\* messages it had not read
StreamsDropped ==
    inbox' = [c \in Conns |->
                IF sess'[c].task = "ended" THEN <<>> ELSE inbox[c]]

\* socket.accept().await returned Err: the while-let ends and main returns
\* Ok(()) (lines 93, 101)
AcceptErrExit ==
    /\ main' = [main EXCEPT !.pc = "exited"]
    /\ sess' = [c \in Conns |-> Dropped(sess[c])]
    /\ runq' = <<>>

\* socket.accept().await returned Err
AcceptErr ==
    /\ DriverTurn
    /\ main.pc = "accept"
    /\ AcceptErrExit
    /\ KeepHist
    /\ UNCHANGED <<cli, templateFile, nsent, ntoks, running, inflight,
                   nsessions>>
    /\ StreamsDropped

\* the TLS handshake is left to the spawned task: main accepts on
TlsInTask(c) == [pc |-> "accept", cand |-> c]

\* acceptor.accept(stream).await in the body of the loop (line 94): main
\* waits for the candidate's handshake
AwaitTls(c) == [pc |-> "tls", cand |-> c]

\* socket.accept().await returned Ok: acceptor.accept(stream).await begins
AcceptOk(c) ==
    /\ DriverTurn
    /\ main.pc = "accept"
    /\ sess[c].pc = "tcp"
    /\ main' = AwaitTls(c)
    /\ sess' = [sess EXCEPT ![c].pc = "tls"]
    /\ KeepHist
    /\ UNCHANGED <<cli, templateFile, inbox, nsent, ntoks, runq, running,
                   inflight, nsessions>>

\* the TLS handshake ended: tokio::spawn(handler(..)), or continue (94-98)
TlsDone(ok) ==
    /\ DriverTurn
    /\ main.pc = "tls"
    /\ IF ok
       THEN /\ sess' = [sess EXCEPT ![main.cand].task = "ready",
                                    ![main.cand].pc = "ws"]
            /\ runq' = Append(runq, main.cand)
       ELSE /\ sess' = [sess EXCEPT ![main.cand].pc = "rejected"]
            /\ UNCHANGED runq
    /\ main' = [pc |-> "accept", cand |-> NoConn]
    /\ KeepHist
    /\ UNCHANGED <<cli, templateFile, inbox, nsent, ntoks, running, inflight,
                   nsessions>>

(***************************************************************************)
(* handler: one task per connection (lines 115-172).                       *)
(***************************************************************************)
Running(c) == c \in running /\ sess[c].task = "running"

\* a handler's error is propagated to main and ends the runtime
EndTearsDown(c, why) ==
    /\ sess' = [d \in Conns |-> IF d = c THEN Finished(sess[c], why)
                                ELSE Dropped(sess[d])]
    /\ running' = running \ {c}
    /\ runq' = <<>>

\* the handler is over: its task leaves the runtime
End(c, why) ==
    /\ sess' = [sess EXCEPT ![c] = Finished(@, why)]
    /\ running' = running \ {c}
    /\ UNCHANGED runq

IoOutcomes == {"ok", "err", "pending"}

\* tokio_tungstenite::accept_async(stream).await? (line 120)
WsHandshake(c) ==
    /\ Running(c)
    /\ sess[c].pc = "ws"
    /\ \E o \in IoOutcomes :
         \/ /\ o = "ok"
            /\ sess' = [sess EXCEPT ![c].pc = "start"]
            /\ UNCHANGED <<running, runq>>
         \/ o = "err" /\ End(c, "ws_err")
         \/ o = "pending" /\ Suspend(c)
    /\ KeepHist
    /\ UNCHANGED <<cli, templateFile, main, nsent, ntoks,
                   inflight, nsessions>>
    /\ StreamsDropped

\* a session is started for every prompt
StartPerPrompt(s) ==
    [s EXCEPT !.handle = nsessions + 1, !.started = @ + 1]

\* the handle the turn's engine calls use: the one of line 124
TurnSession(s) == s

\* model.start_session(..) (lines 124-128); the configuration is read
\* first, and a missing or malformed variable ends the handler
StartSession(c) ==
    /\ Running(c)
    /\ sess[c].pc = "start"
    /\ \/ /\ sess' = [sess EXCEPT ![c].handle = nsessions + 1,
                                  ![c].started = @ + 1,
                                  ![c].pc = "tpl"]
          /\ nsessions' = nsessions + 1
          /\ UNCHANGED <<running, runq>>
       \/ End(c, "env_err") /\ UNCHANGED nsessions
    /\ KeepHist
    /\ UNCHANGED <<cli, templateFile, main, nsent, ntoks,
                   inflight>>
    /\ StreamsDropped

\* Template::new(&fs::read_to_string(env::var(TEMPLATE_FILE_VAR)?).await?)
ReadTemplate(c) ==
    /\ Running(c)
    /\ sess[c].pc = "tpl"
    /\ \E o \in IoOutcomes :
         \/ /\ o = "ok"
            /\ sess' = [sess EXCEPT ![c].template = templateFile,
                                    ![c].pc = "read"]
            /\ UNCHANGED <<running, runq>>
         \/ o = "err" /\ End(c, "tpl_err")
         \/ o = "pending" /\ Suspend(c)
    /\ KeepHist
    /\ UNCHANGED <<cli, templateFile, main, nsent, ntoks,
                   inflight, nsessions>>
    /\ StreamsDropped

\* the templated prompt is fed in one call
FeedUnitsWhole(template, prompt) == << render(template, prompt) >>

\* the feed units of a prompt (lines 137-142)
FeedUnits(template, prompt) == split_whitespace(render(template, prompt))

\* a prompt was read: the turn begins (lines 133-142)
BeginTurn(s, prompt) ==
    LET units == FeedUnits(s.template, prompt)
    IN  [TurnSession(s) EXCEPT
            !.rendered = render(s.template, prompt),
            !.words = units,
            !.fed = <<>>,
            !.returned = <<>>,
            !.wire = <<>>,
            !.flushed = 0,
            !.nread = @ + 1,
            !.pc = IF units = <<>> THEN "infer" ELSE "feed"]

\* while let Some(Ok(Message::Text(prompt))) = reader.next().await (line 132)
ReadNext(c) ==
    /\ Running(c)
    /\ sess[c].pc = "read"
    /\ IF inbox[c] = <<>>
       THEN Suspend(c) /\ UNCHANGED <<inbox, nsessions>>
       ELSE LET m == Head(inbox[c])
            IN  /\ inbox' = [inbox EXCEPT ![c] = IF m.t = "text" THEN Tail(@)
                                                ELSE <<>>]
                /\ IF m.t = "text"
                   THEN /\ sess' = [sess EXCEPT ![c] = BeginTurn(@, m.p)]
                        /\ nsessions' = IF sess'[c].handle = sess[c].handle
                                        THEN nsessions ELSE nsessions + 1
                        /\ UNCHANGED <<running, runq>>
                   ELSE /\ End(c, "read_end")
                        /\ UNCHANGED nsessions
    /\ KeepHist
    /\ UNCHANGED <<cli, templateFile, main, nsent, ntoks, inflight>>

\* an engine call on the session's handle begins
EngineCall(c) ==
    /\ inflight' = inflight \cup {c}
    /\ UNCHANGED nsessions

\* session.feed_prompt(&*model, word, ..) is entered (line 143)
FeedBegin(c) ==
    /\ Running(c)
    /\ sess[c].pc = "feed"
    /\ EngineCall(c)
    /\ sess' = [sess EXCEPT ![c].pc = "feeding",
                            ![c].fed = Append(@, Head(sess[c].words)),
                            ![c].yielded = FALSE,
                            ![c].used = @ \cup {sess[c].handle}]
    /\ FeedHist(c)
    /\ UNCHANGED <<cli, templateFile, main, inbox, nsent, ntoks,
                   runq, running>>

\* feed_prompt(..)? returned Err: the handler returns the error (line 145)
FeedErr(s) == Finished([s EXCEPT !.lastRes = "err"], "feed_err")

\* what the engine signals when a feed call returns without an error:
\* go on, or stop.  feed_prompt(..)? returns Ok(()) in both cases and the
\* handler's own callback answers Continue (line 144)
FeedSignals == {"ok", "stop"}

\* the next word is fed in the same poll
FeedOkNoYield(s) ==
    [s EXCEPT !.words = Tail(@), !.lastRes = "ok",
              !.pc = IF Tail(s.words) = <<>> THEN "infer" ELSE "feed"]

\* feed_prompt(..)? returned Ok: on to yield_now().await (lines 145-146)
FeedOk(s) ==
    [s EXCEPT !.words = Tail(@), !.lastRes = "ok", !.pc = "feed_yield"]

\* feed_prompt returned (lines 143-145)
FeedReturn(c) ==
    /\ Running(c)
    /\ sess[c].pc = "feeding"
    /\ inflight' = inflight \ {c}
    /\ \/ /\ \E sig \in FeedSignals :
               sess' = [sess EXCEPT ![c] = [FeedOk(@) EXCEPT !.lastRes = sig]]
          /\ UNCHANGED running
       \/ /\ sess' = [sess EXCEPT ![c] = FeedErr(@)]
          /\ running' = IF sess'[c].task = "ended" THEN running \ {c}
                        ELSE running
    /\ KeepHist
    /\ UNCHANGED <<cli, templateFile, main, nsent, ntoks,
                   runq, nsessions>>
    /\ StreamsDropped

\* a feed call that signalled a stop was the last of the turn
AfterYieldHalts(s) ==
    IF s.pc = "feed_yield"
    THEN (IF s.words = <<>> \/ s.lastRes = "stop" THEN "infer" ELSE "feed")
    ELSE IF s.pc = "tok_yield" THEN "infer"
    ELSE "read"

\* the handler looks for a new prompt after every token
AfterYieldPolls(s) ==
    IF s.pc = "feed_yield" THEN (IF s.words = <<>> THEN "infer" ELSE "feed")
    ELSE "read"

\* where the task resumes after yield_now().await
AfterYield(s) ==
    IF s.pc = "feed_yield" THEN (IF s.words = <<>> THEN "infer" ELSE "feed")
    ELSE IF s.pc = "tok_yield" THEN "infer"
    ELSE "read"

\* yield_now().await (lines 146, 162, 167): the task wakes itself and
\* goes to the back of the run queue
Yield(c) ==
    /\ Running(c)
    /\ sess[c].pc \in {"feed_yield", "tok_yield", "sentinel_yield"}
    /\ sess' = [sess EXCEPT ![c].pc = AfterYield(sess[c]),
                            ![c].yielded = TRUE,
                            ![c].task = "ready"]
    /\ running' = running \ {c}
    /\ runq' = Requeue(runq, c)
    /\ KeepHist
    /\ UNCHANGED <<cli, templateFile, main, inbox, nsent, ntoks,
                   inflight, nsessions>>

\* session.infer_next_token(..) is entered (line 150)
InferBegin(c) ==
    /\ Running(c)
    /\ sess[c].pc = "infer"
    /\ EngineCall(c)
    /\ sess' = [sess EXCEPT ![c].pc = "inferring",
                            ![c].rendered = <<>>,
                            ![c].fed = <<>>,
                            ![c].yielded = FALSE,
                            ![c].used = @ \cup {sess[c].handle}]
    /\ InferHist(c)
    /\ UNCHANGED <<cli, templateFile, main, inbox, nsent, ntoks,
                   runq, running>>

\* the token's bytes are taken for text without validation
GotTokenUnchecked(s, tok) ==
    IF tok = <<>> THEN Finished(s, "panic")
    ELSE [s EXCEPT !.cur = tok, !.pc = "send_tok"]

\* the empty token is sent like any other
NoAssert(s, tok) ==
    IF ~IsUtf8(tok) THEN Finished(s, "utf8_err")
    ELSE [s EXCEPT !.cur = tok, !.pc = "send_tok"]

\* let Ok(tok) = .. (line 150), assert!(!tok.is_empty()) (line 159) and
\* String::from_utf8(tok)? (line 160)
GotToken(s, tok) ==
    IF tok = <<>> THEN Finished(s, "panic")
    ELSE IF ~IsUtf8(tok) THEN Finished(s, "utf8_err")
    ELSE [s EXCEPT !.cur = tok, !.pc = "send_tok"]

\* an infer error ends the handler
InferErrFatal(s) == Finished([s EXCEPT !.lastRes = "err"], "infer_err")

\* .. else { break } (lines 155-157): on to the end-of-turn message
InferErr(s) == [s EXCEPT !.lastRes = "err", !.pc = "send_sentinel"]

\* infer_next_token returned (lines 150-160)
InferReturn(c) ==
    /\ Running(c)
    /\ sess[c].pc = "inferring"
    /\ inflight' = inflight \ {c}
    /\ \/ /\ sess' = [sess EXCEPT ![c] = InferErr(@)]
          /\ UNCHANGED ntoks
       \/ \E tok \in Tokens :
            /\ ntoks < MaxToks
            /\ ntoks' = ntoks + 1
            /\ sess' = [sess EXCEPT ![c] =
                          GotToken([@ EXCEPT !.returned = Append(@, tok),
                                             !.lastRes = "ok"], tok)]
    /\ running' = IF sess'[c].task = "ended" THEN running \ {c} ELSE running
    /\ KeepHist
    /\ UNCHANGED <<cli, templateFile, main, nsent,
                   runq, nsessions>>
    /\ StreamsDropped

\* the first token of the turn is sent again
OutgoingStale(s) ==
    IF s.pc = "send_tok" THEN TokenMessage(Head(s.returned)) ELSE Sentinel

\* the message a send step writes
Outgoing(s) == IF s.pc = "send_tok" THEN TokenMessage(s.cur) ELSE Sentinel

\* writer.send(Message::Text(..)).await? (lines 160, 165)
Send(c) ==
    /\ Running(c)
    /\ sess[c].pc \in {"send_tok", "send_sentinel"}
    /\ \E o \in IoOutcomes :
         \/ /\ o = "ok"
            /\ sess' = [sess EXCEPT
                          ![c].wire = Append(@, Outgoing(sess[c])),
                          ![c].nsentinel = IF sess[c].pc = "send_sentinel"
                                           THEN @ + 1 ELSE @,
                          ![c].cur = <<>>,
                          ![c].pc = IF sess[c].pc = "send_tok"
                                    THEN "flush_tok" ELSE "flush_sentinel"]
            /\ UNCHANGED <<running, runq>>
         \/ o = "err" /\ End(c, "write_err")
         \/ o = "pending" /\ Suspend(c)
    /\ KeepHist
    /\ UNCHANGED <<cli, templateFile, main, nsent, ntoks,
                   inflight, nsessions>>
    /\ StreamsDropped

\* writer.flush().await? (lines 161, 166); send has flushed the message
\* already, so the flush has nothing to wait for: it succeeds or fails
Flush(c) ==
    /\ Running(c)
    /\ sess[c].pc \in {"flush_tok", "flush_sentinel"}
    /\ \/ /\ sess' = [sess EXCEPT
                        ![c].flushed = Len(sess[c].wire),
                        ![c].pc = IF sess[c].pc = "flush_tok"
                                  THEN "tok_yield" ELSE "sentinel_yield"]
          /\ UNCHANGED <<running, runq>>
       \/ End(c, "write_err")
    /\ KeepHist
    /\ UNCHANGED <<cli, templateFile, main, nsent, ntoks, inflight,
                   nsessions>>
    /\ StreamsDropped

Next ==
    \/ AcceptErr
    \/ \E ok \in BOOLEAN : TlsDone(ok)
    \/ \E c \in Conns :
         \/ TcpConnect(c)
         \/ AcceptOk(c)
         \/ \E m \in ClientMsgs : ClientSend(c, m)
         \/ IoReady(c)
         \/ Schedule(c)
         \/ WsHandshake(c)
         \/ StartSession(c)
         \/ ReadTemplate(c)
         \/ ReadNext(c)
         \/ FeedBegin(c)
         \/ FeedReturn(c)
         \/ Yield(c)
         \/ InferBegin(c)
         \/ InferReturn(c)
         \/ Send(c)
         \/ Flush(c)

Spec == Init /\ [][Next]_vars

\* the server with command-line clients on its connections
NextCli ==
    \/ AcceptErr
    \/ \E ok \in BOOLEAN : TlsDone(ok)
    \/ \E c \in Conns :
         \/ TcpConnect(c)
         \/ AcceptOk(c)
         \/ \E p \in Prompts : CliSend(c, p)
         \/ CliRecv(c)
         \/ CliStreamEnd(c)
         \/ CliQuit(c)
         \/ IoReady(c)
         \/ Schedule(c)
         \/ WsHandshake(c)
         \/ StartSession(c)
         \/ ReadTemplate(c)
         \/ ReadNext(c)
         \/ FeedBegin(c)
         \/ FeedReturn(c)
         \/ Yield(c)
         \/ InferBegin(c)
         \/ InferReturn(c)
         \/ Send(c)
         \/ Flush(c)

SpecCli == Init /\ [][NextCli]_vars

\* the steps of a handler while its task is being polled
HandlerStep(c) ==
    \/ WsHandshake(c) \/ StartSession(c) \/ ReadTemplate(c) \/ ReadNext(c)
    \/ FeedBegin(c) \/ FeedReturn(c) \/ Yield(c)
    \/ InferBegin(c) \/ InferReturn(c) \/ Send(c) \/ Flush(c)

\* the runtime never idles while a task is queued, a polled task runs to
\* its next suspension point, and engine calls return
FairSpec ==
    /\ Init /\ [][Next]_vars
    /\ WF_vars(\E c \in Conns : Schedule(c))
    /\ \A c \in Conns : WF_vars(HandlerStep(c))

(***************************************************************************)
(* Properties.                                                             *)
(***************************************************************************)
Live(c) == sess[c].task \in {"ready", "running", "blocked"}

Texts(w) == [i \in 1..Len(w) |-> w[i].text]

\* ways a handler ends that the sentinel guarantee leaves aside: the
\* channel is not writable, the runtime is gone, or the engine returned a
\* token it must not return
C1_Aside == {"write_err", "cancelled", "panic", "utf8_err"}

\* C1: every prompt the handler received is answered by exactly one
\* end-of-turn message, also when the first feed call or the first
\* infer_next call of the turn fails: a handler that is over, its channel
\* writable to the end, has sent as many end-of-turn messages as it has
\* read prompts.
C1_SentinelForEveryPrompt ==
    \A c \in Conns :
      /\ sess[c].nsentinel <= sess[c].nread
      /\ (sess[c].task = "ended" /\ sess[c].cause \notin C1_Aside)
            => sess[c].nsentinel = sess[c].nread

\* C2: what a turn sends is the tokens its successful infer_next calls
\* returned, in that order, one message each, every one sent and flushed
\* before the next engine call, and then one empty message.
C2_TurnOutput ==
    \A c \in Conns : Live(c) =>
      LET s == sess[c]
          toks == Texts(s.wire)
      IN  /\ s.pc \in {"feed", "feeding", "feed_yield"} => s.wire = <<>>
          /\ s.pc \in {"infer", "inferring"} =>
                toks = s.returned /\ s.flushed = Len(s.wire)
          /\ s.pc = "send_tok" =>
                /\ s.returned # <<>>
                /\ s.cur = s.returned[Len(s.returned)]
                /\ toks = SubSeq(s.returned, 1, Len(s.returned) - 1)
          /\ s.pc \in {"flush_tok", "tok_yield", "send_sentinel"} =>
                toks = s.returned
          /\ (s.pc \in {"flush_sentinel", "sentinel_yield"}
                \/ (s.pc = "read" /\ s.nread > 0)) =>
                toks = s.returned \o << <<>> >>
          /\ \A i \in 1..Len(s.wire) :
                s.wire[i].kind = "sentinel" <=> i = Len(s.returned) + 1

\* C2 witness: a turn of two different tokens is complete
C2_Witness ==
    \E c \in Conns :
      /\ sess[c].pc = "sentinel_yield"
      /\ sess[c].returned = << <<72>>, <<195, 169>> >>
      /\ Texts(sess[c].wire) = << <<72>>, <<195, 169>>, <<>> >>

\* C3: no token message is empty: an empty message is only ever the one
\* end-of-turn message that closes the turn, and a session whose engine
\* returned an empty token is over without having written it.
C3_NoEmptyToken ==
    \A c \in Conns :
      \A i \in 1..Len(sess[c].wire) :
        LET m == sess[c].wire[i]
        IN  /\ m.kind = "token" => m.text # <<>>
            /\ m.text = <<>> => (m.kind = "sentinel" /\ i = Len(sess[c].wire))

\* C3 witness: the engine returned an empty token after a token was sent
C3_Witness ==
    \E c \in Conns :
      /\ sess[c].cause = "panic"
      /\ Len(sess[c].wire) = 1
      /\ sess[c].wire[1].kind = "token"

\* C4: at no instant are two engine calls in flight.
C4_OneEngineCall == Cardinality(inflight) <= 1

\* C4 witness: an engine call is in flight while another session, in its
\* generation loop, waits for its turn
C4_Witness ==
    \E c, d \in Conns :
      /\ c # d
      /\ c \in inflight
      /\ ReadyToInfer(sess[d])

\* C5: the engine sees one session start per connection: a handler starts
\* at most one session, every engine call of every turn is made on that
\* handle, and no two connections share a handle.
C5_OneSessionPerConnection ==
    /\ \A c \in Conns :
         /\ sess[c].started <= 1
         /\ sess[c].used \subseteq {sess[c].handle}
         /\ sess[c].used # {} => sess[c].started = 1 /\ sess[c].handle # 0
    /\ \A c, d \in Conns :
         (c # d /\ sess[c].handle # 0) => sess[c].handle # sess[d].handle
    /\ nsessions = Cardinality({c \in Conns : sess[c].started > 0})

\* C5 witness: an engine call of a connection's second turn
C5_Witness ==
    \E c \in Conns :
      /\ sess[c].nread = 2
      /\ sess[c].pc \in {"feeding", "inferring"}
      /\ sess[c].used = {sess[c].handle}

\* C6, as stated: among sessions in the generation loop, none makes two
\* engine calls without every other one making a call in between.
C6_RoundRobinAllGenerating == \A c \in Conns : skippedGen[c] = {}

\* C6, amended: a session never makes two infer_next calls while another
\* session stays queued at its yield point, its next step an infer_next
\* call, without that session making its call in between.
C6_RoundRobinAtYield == \A c \in Conns : skipped[c] = {}

\* C6 witness: c makes its second call of the turn after d, which was
\* queued, made one
C6_Witness ==
    \E c, d \in Conns :
      /\ c # d
      /\ sess[c].pc = "inferring"
      /\ sess[c].returned # <<>>
      /\ sess[d].returned # <<>>
      /\ d \in owed[c]

\* C7: a feed error is not fatal: when a feed call returns, the handler
\* goes on, to its yield or to the end-of-turn message.
C7_FeedErrorNotFatal ==
    [][\A c \in Conns :
         (sess[c].pc = "feeding" /\ sess'[c].pc # "feeding") =>
            /\ sess'[c].task = "running"
            /\ sess'[c].pc \in {"feed_yield", "send_sentinel"}]_vars

\* the end of a turn: from the end-of-turn send to the next read
C8_SentinelPath(s, t) ==
    \/ t.task = "ended" /\ t.cause \in {"write_err", "cancelled"}
    \/ /\ t.task # "ended"
       /\ \/ s.pc = "send_sentinel" /\ t.pc \in {"send_sentinel", "flush_sentinel"}
          \/ s.pc = "flush_sentinel" /\ t.pc \in {"flush_sentinel", "sentinel_yield"}
          \/ s.pc = "sentinel_yield" /\ t.pc \in {"sentinel_yield", "read"}

\* C8: an infer_next error ends the turn like a normal end: the handler
\* goes on to the end-of-turn message, then to the next read unless the
\* write fails; and when the first infer_next of a turn failed the turn's
\* output is the one empty message.
C8_InferErrorEndsTurn ==
    /\ [](\A c \in Conns :
            (sess[c].pc \in {"flush_sentinel", "sentinel_yield"}
               /\ sess[c].returned = <<>>) => sess[c].wire = <<Sentinel>>)
    /\ [][\A c \in Conns :
            /\ (sess[c].pc = "inferring" /\ sess'[c].pc # "inferring"
                  /\ ntoks' = ntoks) =>
                 (sess'[c].task = "running" /\ sess'[c].pc = "send_sentinel")
            /\ sess[c].pc \in {"send_sentinel", "flush_sentinel",
                               "sentinel_yield"} =>
                 C8_SentinelPath(sess[c], sess'[c])]_vars

\* C8 witness: the first infer_next of a turn failed, and the session is
\* back waiting for a prompt, having sent the one empty message
C8_Witness ==
    \E c \in Conns :
      /\ sess[c].task = "blocked"
      /\ sess[c].pc = "read"
      /\ sess[c].nread = 1
      /\ sess[c].returned = <<>>
      /\ sess[c].wire = <<Sentinel>>

TransportFatal == {"read_end", "write_err"}

Others(q, c) == SelectSeq(q, LAMBDA x : x # c)

\* C9: a step in which one connection's handler ends on a transport
\* failure leaves every other session, its unread messages, its place in
\* the run queue and the accept loop as they were.
C9_FailureIsolated ==
    [][\A c \in Conns :
         (sess[c].task # "ended" /\ sess'[c].task = "ended"
            /\ sess'[c].cause \in TransportFatal) =>
            /\ \A d \in Conns \ {c} :
                 sess'[d] = sess[d] /\ inbox'[d] = inbox[d]
            /\ Others(runq', c) = Others(runq, c)
            /\ main' = main]_vars

\* C9 witness: a connection failed on a write, and another session is in
\* an engine call
C9_Witness ==
    \E c, d \in Conns :
      /\ c # d
      /\ sess[c].cause = "write_err"
      /\ d \in inflight

\* C10: the acceptor never leaves its loop, and no running session is
\* dropped because a candidate connection failed.
C10_AcceptorNeverLeavesLoop ==
    /\ main.pc # "exited"
    /\ \A c \in Conns : sess[c].cause # "cancelled"

\* C11: the command-line client sends a prompt only after it has received
\* the empty end-of-turn message for the prompt before it, also when the
\* server tears the connection down in the middle of a turn.
C11_OnePromptPerTurn == \A c \in Conns : ~cli[c].early


\* C12: between two consecutive engine calls of a session there is a
\* yield: whenever the session's next step is an engine call, feed or
\* infer_next, in the same turn or the first call of the next, the session
\* has yielded since its last engine call, whether that call succeeded or
\* failed; and an engine call in flight is the only one since the yield.
C12_YieldBetweenCalls ==
    \A c \in Conns :
      /\ sess[c].pc \in {"feed", "infer"} => sess[c].yielded
      /\ c \in inflight <=> (sess[c].pc \in {"feeding", "inferring"})
      /\ c \in inflight => ~sess[c].yielded

\* C12 witness: the first engine call of a turn is in flight, the last
\* call of the turn before it having failed
C12_Witness ==
    \E c \in Conns :
      /\ sess[c].pc = "feeding"
      /\ sess[c].nread = 2
      /\ sess[c].lastRes = "err"

\* the positions of text where a word begins: a character that is not
\* whitespace, at the start of the text or behind whitespace
WordStarts(text) ==
    {i \in 1..Len(text) : text[i] # " " /\ (i = 1 \/ text[i - 1] = " ")}

\* the position where the word that begins at i ends
WordEnd(text, i) ==
    CHOOSE j \in i..Len(text) :
      /\ \A k \in i..j : text[k] # " "
      /\ j = Len(text) \/ text[j + 1] = " "

\* units is the words of text, each once, from left to right: the k-th
\* unit is the word at the k-th place where a word begins
IsWordsOf(units, text) ==
    LET starts == WordStarts(text)
    IN  /\ Len(units) = Cardinality(starts)
        /\ \A i \in starts :
             units[Cardinality({j \in starts : j <= i})] =
               SubSeq(text, i, WordEnd(text, i))

\* the turn has made no infer_next_token call yet
C13_BeforeFirstInfer(s) ==
    \/ s.pc \in {"feed", "feeding", "feed_yield"}
    \/ s.pc = "infer" /\ s.returned = <<>>

\* C13: in a turn the units fed so far, followed by the units still to
\* feed, are the whitespace-delimited non-empty words of the templated
\* prompt, each once and in order, one feed call per word; no
\* infer_next call is made while a word is left to feed; a templated prompt
\* without a word is fed by no call at all.
C13_FeedsTheWords ==
    \A c \in Conns : Live(c) =>
      LET s == sess[c]
          done == IF s.pc = "feeding" THEN SubSeq(s.fed, 1, Len(s.fed) - 1)
                  ELSE s.fed
      IN  /\ C13_BeforeFirstInfer(s) =>
               /\ IsWordsOf(done \o s.words, s.rendered)
               /\ s.pc = "feeding" => s.fed[Len(s.fed)] = Head(s.words)
               /\ s.pc = "feed" => s.words # <<>>
               /\ s.pc = "infer" => s.words = <<>>
               /\ WordStarts(s.rendered) = {} => (s.pc = "infer" /\ s.fed = <<>>)
          /\ InGen(s) => s.words = <<>>

\* C13 witness: a prompt of two words, one of two characters, behind
\* two blanks, was fed in two calls and the first infer_next call is next
C13_Witness ==
    \E c \in Conns :
      /\ sess[c].pc = "infer"
      /\ sess[c].returned = <<>>
      /\ sess[c].rendered = <<" ", "a", "b", " ", " ", "c">>
      /\ sess[c].fed = << <<"a", "b">>, <<"c">> >>

ChannelDown(c) ==
    \E i \in 1..Len(inbox[c]) : inbox[c][i].t = "close"

\* C15: once a connection's channel is closed or failed, no engine call
\* is begun for its session, whether it waits for a prompt, feeds or
\* generates; the call in flight at that moment is the last.
C15_CloseCancelsSession ==
    [][\A c \in Conns :
         (ChannelDown(c) /\ c \in inflight') => c \in inflight]_vars

\* the session has yielded in the middle of Feeding or Generating
YieldedMidTurn(c) ==
    sess[c].task = "ready" /\ sess[c].pc \in {"feed", "infer"}

\* C16: a session that has yielded in the middle of Feeding or
\* Generating is always resumed: it stays in the run queue until the
\* scheduler polls it again, and is never dropped while it waits.
C16_YieldedIsResumed ==
    [][\A c \in Conns :
         YieldedMidTurn(c) => sess'[c].task \in {"ready", "running"}]_vars

InRunq(c) == \E i \in 1..Len(runq) : runq[i] = c

\* C17: a transport-fatal event ends the handler for good: the read of
\* a close, a read error or a message that is not text, and a failed
\* write of a token or of the end-of-turn message, leave the task ended;
\* an ended task is in no queue, has no engine call in flight, begins
\* none and sends nothing more.
C17_TransportFatalIsFinal ==
    /\ [](\A c \in Conns :
            /\ sess[c].task = "ended" =>
                 (c \notin inflight /\ c \notin running /\ ~InRunq(c))
            /\ sess[c].cause \in TransportFatal => sess[c].task = "ended")
    /\ [][\A c \in Conns :
            /\ sess[c].task = "ended" =>
                 (sess'[c] = sess[c] /\ c \notin inflight')
            /\ (Running(c) /\ sess[c].pc = "read" /\ inbox[c] # <<>>
                  /\ Head(inbox[c]).t # "text" /\ sess'[c] # sess[c]) =>
                 (sess'[c].task = "ended" /\ sess'[c].cause = "read_end")
            /\ (sess[c].cause # "write_err" /\ sess'[c].cause = "write_err") =>
                 /\ sess[c].pc \in {"send_tok", "flush_tok", "send_sentinel",
                                    "flush_sentinel"}
                 /\ sess'[c].wire = sess[c].wire
                 /\ sess'[c].nsentinel = sess[c].nsentinel]_vars

\* C17 witness: after one token was sent a write failed, and the handler
\* is over without an end-of-turn message for the prompt it had read
C17_Witness ==
    \E c \in Conns :
      /\ sess[c].task = "ended"
      /\ sess[c].cause = "write_err"
      /\ Len(sess[c].wire) = 1
      /\ sess[c].nread = 1
      /\ sess[c].nsentinel = 0

\* C18: a prompt that arrives while the session feeds or generates waits
\* in the channel: messages leave the channel only from its head, one at
\* a time, read by the handler at the top of its loop, and a prompt read
\* begins a turn for that prompt; a connection has at most one turn open,
\* and never more end-of-turn messages sent than prompts read.
C18_PromptsWaitTheirTurn ==
    /\ [](\A c \in Conns :
            /\ sess[c].nsentinel <= sess[c].nread
            /\ sess[c].nread <= sess[c].nsentinel + 1)
    /\ [][\A c \in Conns :
            /\ inbox'[c] # inbox[c] =>
                 \/ \E m \in ClientMsgs : inbox'[c] = Append(inbox[c], m)
                 \/ /\ sess[c].task # "ended" /\ sess'[c].task = "ended"
                    /\ inbox'[c] = <<>>
                 \/ /\ Running(c) /\ sess[c].pc = "read"
                    /\ inbox[c] # <<>> /\ inbox'[c] = Tail(inbox[c])
                    /\ Head(inbox[c]).t = "text" =>
                         /\ sess'[c].nread = sess[c].nread + 1
                         /\ sess'[c].pc \in {"feed", "infer"}
                         /\ sess'[c].rendered =
                               render(sess[c].template, Head(inbox[c]).p)
            /\ sess'[c].nread # sess[c].nread => inbox'[c] = Tail(inbox[c])
          ]_vars

\* C18 witness: a prompt lies unread in the channel while the session
\* is in an infer_next call of the turn before it, a token already sent
C18_Witness ==
    \E c \in Conns :
      /\ sess[c].pc = "inferring"
      /\ sess[c].nread = 1
      /\ sess[c].returned # <<>>
      /\ inbox[c] = << [t |-> "text", p |-> <<"a", "b", " ", " ", "c">>] >>

\* C19: every token message sent is valid UTF-8 text; when infer_next
\* returns bytes that are not valid UTF-8 nothing is sent for them, the
\* handler ends with the error and no end-of-turn message closes the turn.
C19_TokensAreUtf8 ==
    /\ [](\A c \in Conns :
            /\ \A i \in 1..Len(sess[c].wire) :
                 sess[c].wire[i].kind = "token" => IsUtf8(sess[c].wire[i].text)
            /\ sess[c].pc = "send_tok" => IsUtf8(sess[c].cur)
            /\ sess[c].cause = "utf8_err" =>
                 /\ sess[c].task = "ended"
                 /\ sess[c].nsentinel = sess[c].nread - 1
                 /\ \A i \in 1..Len(sess[c].wire) :
                      sess[c].wire[i].kind = "token")
    /\ [][\A c \in Conns :
            (sess[c].cause # "utf8_err" /\ sess'[c].cause = "utf8_err") =>
               /\ sess[c].pc = "inferring"
               /\ ntoks' = ntoks + 1
               /\ sess'[c].wire = sess[c].wire]_vars

\* C19 witness: after a token was sent, infer_next returned bytes that
\* are not valid UTF-8 and the handler is over
C19_Witness ==
    \E c \in Conns :
      /\ sess[c].cause = "utf8_err"
      /\ Len(sess[c].wire) = 1
      /\ sess[c].nread = 1

\* C20: TLS handshakes are made one at a time by the accept loop: while
\* a candidate's handshake is pending main waits for it and accepts no
\* other TCP connection, and the queued tasks are polled all the same;
\* the WebSocket handshake is made by the spawned task, and main accepts
\* the next connection while it is pending.
C20_TlsInLoopWsInTask ==
    /\ [](\A c \in Conns :
            /\ sess[c].pc = "tls" <=> (main.pc = "tls" /\ main.cand = c)
            /\ sess[c].pc = "ws" =>
                 /\ sess[c].task \in {"ready", "running", "blocked"}
                 /\ main.cand # c
                 /\ \A d \in Conns :
                      (main.pc = "accept" /\ running = {}
                         /\ sess[d].pc = "tcp") => ENABLED AcceptOk(d)
            /\ (main.pc = "tls" /\ running = {} /\ runq # <<>>
                  /\ c = Head(runq)) => ENABLED Schedule(c))
    /\ [][main.pc = "tls" =>
            \A c \in Conns : sess[c].pc = "tcp" => sess'[c].pc = "tcp"]_vars

\* C20 witness: a task is polled in its WebSocket handshake while the
\* TLS handshake of the connection accepted after it is pending
C20_Witness ==
    \E c, d \in Conns :
      /\ c # d
      /\ sess[c].pc = "ws"
      /\ sess[c].task = "running"
      /\ sess[d].pc = "tls"
      /\ main = [pc |-> "tls", cand |-> d]

====
